---- MODULE Spec2Model ----
(***************************************************************************)
(* Model of the slottify template engine: the lexer and recursive-descent  *)
(* parser of TemplateParser (src/src/core/template-parser.ts) and the      *)
(* evaluator, compile cache and filter registry of TemplateEngine          *)
(* (src/unnamed/part_002).                                                  *)
(*                                                                         *)
(* A JavaScript string is a sequence of one-character strings.  Indices    *)
(* are 1-based: the model's index i is the source's i + 1.                 *)
(***************************************************************************)
EXTENDS Integers, Sequences, FiniteSets, TLC

VARIABLES
    filters,    \* the engine's filters field: name -> function
    astCache,   \* the engine's astCache: source -> AST
    last,       \* the most recent call and what it returned or threw
    thrown,     \* history: the filter names a render has thrown 'Unknown filter' for
    scan        \* the locals of a tokenize() call taken one loop iteration at a time

vars == <<filters, astCache, last, thrown, scan>>

(***************************************************************************)
(* Bounds of the model.                                                    *)
(***************************************************************************)
\* longest literal text drawn over TextAlphabet
MaxTextLen == 4
\* longest `or` chain drawn from OrOperands
MaxOrLen == 3
\* longest filter pipeline drawn from PipeFilters
MaxPipeLen == 2
\* largest number a context binds
MaxNum == 2
\* longest expression source drawn from the trees of PrecTernaries
MaxSrcLen == 28
\* longest string drawn over LexAlphabet
MaxLexLen == 3
\* most placeholders written back to back
MaxRun == 3

(***************************************************************************)
(* Characters and strings.                                                 *)
(***************************************************************************)
LowerLetters == <<"a","b","c","d","e","f","g","h","i","j","k","l","m",
                  "n","o","p","q","r","s","t","u","v","w","x","y","z">>
UpperLetters == <<"A","B","C","D","E","F","G","H","I","J","K","L","M",
                  "N","O","P","Q","R","S","T","U","V","W","X","Y","Z">>
Digits == <<"0","1","2","3","4","5","6","7","8","9">>

Range(f) == {f[k] : k \in DOMAIN f}

IndexOf(seq, c) == CHOOSE k \in DOMAIN seq : seq[k] = c

\* String.prototype.toLowerCase / toUpperCase on one character
toLowerCaseChar(c) ==
    IF c \in Range(UpperLetters) THEN LowerLetters[IndexOf(UpperLetters, c)] ELSE c

toUpperCaseChar(c) ==
    IF c \in Range(LowerLetters) THEN UpperLetters[IndexOf(LowerLetters, c)] ELSE c

toLowerCase(s) == [k \in DOMAIN s |-> toLowerCaseChar(s[k])]

toUpperCase(s) == [k \in DOMAIN s |-> toUpperCaseChar(s[k])]

\* /\s/
IsSpace(c) == c \in {" ", "\t", "\n", "\r"}

\* /[a-zA-Z_]/
IsIdentStart(c) == c \in Range(LowerLetters) \cup Range(UpperLetters) \cup {"_"}

\* /\w/
IsWord(c) == IsIdentStart(c) \/ c \in Range(Digits)

\* input.slice(i, i + 2) and input.substr(i, 2)
slice2(input, i) ==
    SubSeq(input, i, IF i + 1 <= Len(input) THEN i + 1 ELSE Len(input))

OPEN == <<"{", "{">>
CLOSE == <<"}", "}">>

\* s.includes(t)
includesStr(s, t) ==
    \E k \in 1..(Len(s) + 1) :
        /\ k + Len(t) - 1 <= Len(s)
        /\ SubSeq(s, k, k + Len(t) - 1) = t

RECURSIVE Concat(_)
\* Array.prototype.join('') of a sequence of strings
Concat(parts) ==
    IF parts = <<>> THEN <<>> ELSE Head(parts) \o Concat(Tail(parts))

(***************************************************************************)
(* Lexer: TemplateParser.tokenize.                                         *)
(***************************************************************************)
Token(type, value) == [type |-> type, value |-> value]

RECURSIVE scanString(_, _, _, _)
\* the loop over the body of a string literal; i is the first index after
\* the opening quote.  Returns the index the loop stops at and the text.
scanString(input, i, quote, str) ==
    IF i <= Len(input) /\ input[i] # quote
    THEN IF input[i] = "\\"
         THEN scanString(input, i + 2, quote,
                         IF i + 1 <= Len(input) THEN Append(str, input[i + 1])
                                                ELSE str)
         ELSE scanString(input, i + 1, quote, Append(str, input[i]))
    ELSE [i |-> i, str |-> str]

RECURSIVE scanIdentifier(_, _, _)
\* the loop collecting /\w/ characters of an identifier
scanIdentifier(input, i, identifier) ==
    IF i <= Len(input) /\ IsWord(input[i])
    THEN scanIdentifier(input, i + 1, Append(identifier, input[i]))
    ELSE [i |-> i, identifier |-> identifier]

RECURSIVE scanText(_, _, _)
\* the loop collecting text up to the next '{{'
scanText(input, i, text) ==
    IF i <= Len(input) /\ slice2(input, i) # OPEN
    THEN scanText(input, i + 1, Append(text, input[i]))
    ELSE [i |-> i, text |-> text]

RECURSIVE tokenizeFrom(_, _, _, _)
\* one iteration of the scan loop, from index i in mode insideTemplate
tokenizeFrom(input, i, insideTemplate, tokens) ==
    IF i > Len(input) THEN tokens
    ELSE IF slice2(input, i) = OPEN
    THEN tokenizeFrom(input, i + 2, TRUE, Append(tokens, Token("OPEN_TEMPLATE", OPEN)))
    ELSE IF slice2(input, i) = CLOSE
    THEN tokenizeFrom(input, i + 2, FALSE, Append(tokens, Token("CLOSE_TEMPLATE", CLOSE)))
    ELSE IF insideTemplate
    THEN IF IsSpace(input[i])
         THEN tokenizeFrom(input, i + 1, TRUE, tokens)
         ELSE IF input[i] = "|"
         THEN tokenizeFrom(input, i + 1, TRUE, Append(tokens, Token("PIPE", <<"|">>)))
         ELSE IF input[i] = "?"
         THEN tokenizeFrom(input, i + 1, TRUE, Append(tokens, Token("QUESTION", <<"?">>)))
         ELSE IF input[i] = ":"
         THEN tokenizeFrom(input, i + 1, TRUE, Append(tokens, Token("COLON", <<":">>)))
         ELSE IF input[i] = "'" \/ input[i] = "\""
         THEN LET r == scanString(input, i + 1, input[i], <<>>)
                  j == IF r.i <= Len(input) THEN r.i + 1 ELSE r.i
              IN tokenizeFrom(input, j, TRUE, Append(tokens, Token("STRING", r.str)))
         ELSE IF IsIdentStart(input[i])
         THEN LET r == scanIdentifier(input, i, <<>>)
              IN tokenizeFrom(input, r.i, TRUE,
                     Append(tokens,
                            IF r.identifier = <<"o", "r">>
                            THEN Token("OR", r.identifier)
                            ELSE Token("IDENTIFIER", r.identifier)))
         ELSE tokenizeFrom(input, i + 1, TRUE, tokens)
    ELSE LET r == scanText(input, i, <<>>)
         IN tokenizeFrom(input, r.i, FALSE,
                IF r.text # <<>> THEN Append(tokens, Token("TEXT", r.text))
                                 ELSE tokens)

tokenize(input) == tokenizeFrom(input, 1, FALSE, <<>>)

(***************************************************************************)
(* The scan loop of tokenize, one iteration at a time.  s holds the call's *)
(* locals: input, i, insideTemplate and tokens.                            *)
(***************************************************************************)
\* the locals at the start of tokenize()
scanStart(input) ==
    [pc |-> "loop", input |-> input, i |-> 1, insideTemplate |-> FALSE,
     tokens |-> <<>>]

\* no tokenize() call taken step by step
NoScan ==
    [pc |-> "idle", input |-> <<>>, i |-> 1, insideTemplate |-> FALSE,
     tokens |-> <<>>]

\* the branch the iteration at s.i takes, tested in the order of the source
loopBranch(s) ==
    IF s.i > Len(s.input) THEN "return"
    ELSE IF slice2(s.input, s.i) = OPEN THEN "open"
    ELSE IF slice2(s.input, s.i) = CLOSE THEN "close"
    ELSE IF s.insideTemplate
    THEN IF IsSpace(s.input[s.i]) THEN "space"
         ELSE IF s.input[s.i] = "|" THEN "pipe"
         ELSE IF s.input[s.i] = "?" THEN "question"
         ELSE IF s.input[s.i] = ":" THEN "colon"
         ELSE IF s.input[s.i] = "'" \/ s.input[s.i] = "\"" THEN "string"
         ELSE IF IsIdentStart(s.input[s.i]) THEN "identifier"
         ELSE "unknown"
    ELSE "text"

\* tokens.push(OPEN_TEMPLATE); insideTemplate = true; i += 2
openTemplate(s) ==
    [s EXCEPT !.tokens = Append(@, Token("OPEN_TEMPLATE", OPEN)),
              !.insideTemplate = TRUE, !.i = @ + 2]

\* the '}}' branch followed at once by the text run after it, pushed as a
\* TEXT token whatever its length
closeTemplateThenText(s) ==
    LET r == scanText(s.input, s.i + 2, <<>>)
    IN [s EXCEPT !.tokens = @ \o <<Token("CLOSE_TEMPLATE", CLOSE), Token("TEXT", r.text)>>,
                 !.insideTemplate = FALSE, !.i = r.i]

\* tokens.push(CLOSE_TEMPLATE); insideTemplate = false; i += 2
closeTemplate(s) ==
    [s EXCEPT !.tokens = Append(@, Token("CLOSE_TEMPLATE", CLOSE)),
              !.insideTemplate = FALSE, !.i = @ + 2]

\* i++ on whitespace inside a placeholder
skipSpace(s) == [s EXCEPT !.i = @ + 1]

\* tokens.push({ type, value: input[i] }); i++
pushOperator(s, type) ==
    [s EXCEPT !.tokens = Append(@, Token(type, <<s.input[s.i]>>)), !.i = @ + 1]

\* the string-literal branch: opening quote, body, closing quote if any
stringLiteral(s) ==
    LET r == scanString(s.input, s.i + 1, s.input[s.i], <<>>)
    IN [s EXCEPT !.tokens = Append(@, Token("STRING", r.str)),
                 !.i = IF r.i <= Len(s.input) THEN r.i + 1 ELSE r.i]

\* the identifier branch: OR for 'or', IDENTIFIER otherwise
identifierOrKeyword(s) ==
    LET r == scanIdentifier(s.input, s.i, <<>>)
    IN [s EXCEPT !.tokens = Append(@, IF r.identifier = <<"o", "r">>
                                      THEN Token("OR", r.identifier)
                                      ELSE Token("IDENTIFIER", r.identifier)),
                 !.i = r.i]

\* an unknown character left in place
skipUnknownStay(s) == s

\* i++ on a character that belongs to no token
skipUnknown(s) == [s EXCEPT !.i = @ + 1]

\* the text branch: the run up to the next '{{', pushed if it is not empty
textRun(s) ==
    LET r == scanText(s.input, s.i, <<>>)
    IN [s EXCEPT !.tokens = IF r.text # <<>> THEN Append(@, Token("TEXT", r.text))
                                             ELSE @,
                 !.i = r.i]

(***************************************************************************)
(* Parser: the recursive descent of TemplateParser over (tokens, current). *)
(* A parse function returns Ok(node, current) or Fail(message): a thrown   *)
(* Error propagates through every caller.  A message is the sequence of    *)
(* the fragments the source's template literal concatenates.               *)
(***************************************************************************)
Ok(node, current) == [ok |-> TRUE, node |-> node, current |-> current]

Fail(message) == [ok |-> FALSE, error |-> message]

\* `const x = call(); rest`: rest runs on what the call returned; an Error
\* the call threw propagates instead
Then(r, rest(_)) == IF r.ok THEN rest(r) ELSE r

\* this.peek()?.type || 'EOF'
peekType(tokens, current) ==
    IF current <= Len(tokens) THEN tokens[current].type ELSE "EOF"

\* this.expect(type): the token and the index after it, or the thrown Error
expect(tokens, current, type) ==
    LET got == peekType(tokens, current)
    IN IF got = type
       THEN Ok(tokens[current], current + 1)
       ELSE Fail(<<"Expected ", type, " but got ", got>>)

parsePrimary(tokens, current) ==
    LET got == peekType(tokens, current)
    IN CASE got = "IDENTIFIER" ->
                Ok([type |-> "VARIABLE", name |-> tokens[current].value], current + 1)
         [] got = "STRING" ->
                Ok([type |-> "STRING", value |-> tokens[current].value], current + 1)
         [] OTHER -> Fail(<<"Unexpected token: ", got>>)

\* the token kinds that end a filter's argument list
ArgStops == {"EOF", "PIPE", "QUESTION", "COLON", "OR", "CLOSE_TEMPLATE"}

RECURSIVE parseArgs(_, _, _)
\* the loop of parseFilter collecting primary arguments
parseArgs(tokens, current, args) ==
    IF peekType(tokens, current) \in ArgStops
    THEN Ok(args, current)
    ELSE Then(parsePrimary(tokens, current),
              LAMBDA p : parseArgs(tokens, p.current, Append(args, p.node)))

parseFilter(tokens, current) ==
    Then(expect(tokens, current, "IDENTIFIER"),
         LAMBDA name :
             Then(parseArgs(tokens, name.current, <<>>),
                  LAMBDA args :
                      Ok([type |-> "FILTER", name |-> name.node.value,
                          args |-> args.node],
                         args.current)))

RECURSIVE pipelineLoop(_, _, _)
\* the loop of parsePipeline folding filters onto left
pipelineLoop(tokens, left, current) ==
    IF peekType(tokens, current) # "PIPE"
    THEN Ok(left, current)
    ELSE Then(parseFilter(tokens, current + 1),
              LAMBDA filter :
                  pipelineLoop(tokens,
                               [type |-> "PIPE", left |-> left, filter |-> filter.node],
                               filter.current))

parsePipeline(tokens, current) ==
    Then(parsePrimary(tokens, current),
         LAMBDA left : pipelineLoop(tokens, left.node, left.current))

RECURSIVE orLoop(_, _, _)
\* the loop of parseOr folding operands onto left
orLoop(tokens, left, current) ==
    IF peekType(tokens, current) # "OR"
    THEN Ok(left, current)
    ELSE Then(parsePipeline(tokens, current + 1),
              LAMBDA right :
                  orLoop(tokens,
                         [type |-> "OR", left |-> left, right |-> right.node],
                         right.current))

parseOr(tokens, current) ==
    Then(parsePipeline(tokens, current),
         LAMBDA left : orLoop(tokens, left.node, left.current))

RECURSIVE parseExpression(_, _)

\* the branches of a ternary with the else branch parsed at the `or` level
parseBranchesOr(tokens, condition, current) ==
    Then(parseExpression(tokens, current),
         LAMBDA trueExpr :
             Then(expect(tokens, trueExpr.current, "COLON"),
                  LAMBDA colon :
                      Then(parseOr(tokens, colon.current),
                           LAMBDA falseExpr :
                               Ok([type |-> "TERNARY",
                                   condition |-> condition,
                                   trueExpr |-> trueExpr.node,
                                   falseExpr |-> falseExpr.node],
                                  falseExpr.current))))

\* the branches of a ternary, from the index after its '?'
parseBranches(tokens, condition, current) ==
    Then(parseExpression(tokens, current),
         LAMBDA trueExpr :
             Then(expect(tokens, trueExpr.current, "COLON"),
                  LAMBDA colon :
                      Then(parseExpression(tokens, colon.current),
                           LAMBDA falseExpr :
                               Ok([type |-> "TERNARY",
                                   condition |-> condition,
                                   trueExpr |-> trueExpr.node,
                                   falseExpr |-> falseExpr.node],
                                  falseExpr.current))))

parseTernary(tokens, current) ==
    Then(parseOr(tokens, current),
         LAMBDA left :
             IF peekType(tokens, left.current) = "QUESTION"
             THEN parseBranches(tokens, left.node, left.current + 1)
             ELSE left)

parseExpression(tokens, current) == parseTernary(tokens, current)

parseTemplate(tokens, current) ==
    Then(expect(tokens, current, "OPEN_TEMPLATE"),
         LAMBDA open :
             Then(parseExpression(tokens, open.current),
                  LAMBDA expression :
                      Then(expect(tokens, expression.current, "CLOSE_TEMPLATE"),
                           LAMBDA close :
                               Ok([type |-> "TEMPLATE", expression |-> expression.node],
                                  close.current))))

\* the null the source returns for a token it skips
NullNode == [type |-> "NULL"]

parseNode(tokens, current) ==
    LET got == peekType(tokens, current)
    IN CASE got = "EOF" -> Ok(NullNode, current)
         [] got = "TEXT" ->
                Ok([type |-> "TEXT", value |-> tokens[current].value], current + 1)
         [] got = "OPEN_TEMPLATE" -> parseTemplate(tokens, current)
         [] OTHER -> Ok(NullNode, current + 1)

RECURSIVE parseLoop(_, _, _)
\* the loop of parse() collecting the non-null nodes
parseLoop(tokens, current, nodes) ==
    IF current > Len(tokens)
    THEN Ok(nodes, current)
    ELSE Then(parseNode(tokens, current),
              LAMBDA node :
                  parseLoop(tokens, node.current,
                            IF node.node.type = "NULL" THEN nodes
                                                       ELSE Append(nodes, node.node)))

\* new TemplateParser(input).parse(): Ok(the AST, current) or Fail(message)
parse(input) == parseLoop(tokenize(input), 1, <<>>)

(***************************************************************************)
(* JavaScript values: the context's values and what expressions evaluate   *)
(* to.  A function value is named by the function it is.                   *)
(***************************************************************************)
Str(s) == [t |-> "str", s |-> s]

Num(n) == [t |-> "num", n |-> n]

Bool(b) == [t |-> "bool", b |-> b]

Undefined == [t |-> "undef"]

Fn(name) == [t |-> "fn", name |-> name]

\* ToBoolean: what `v || w`, `v ? a : b` and `!v` test
truthy(v) ==
    CASE v.t = "str" -> v.s # <<>>
      [] v.t = "num" -> v.n # 0
      [] v.t = "bool" -> v.b
      [] v.t = "undef" -> FALSE
      [] v.t = "fn" -> TRUE

RECURSIVE decimal(_)
\* the decimal digits of a natural number
decimal(n) ==
    IF n < 10 THEN <<Digits[n + 1]>> ELSE Append(decimal(n \div 10), Digits[(n % 10) + 1])

NativeToStringSource ==
    <<"f","u","n","c","t","i","o","n"," ","t","o","S","t","r","i","n","g","(",")"," ",
      "{"," ","[","n","a","t","i","v","e"," ","c","o","d","e","]"," ","}">>

\* String(v)
String(v) ==
    CASE v.t = "str" -> v.s
      [] v.t = "num" -> IF v.n < 0 THEN <<"-">> \o decimal(-v.n) ELSE decimal(v.n)
      [] v.t = "bool" -> IF v.b THEN <<"t","r","u","e">> ELSE <<"f","a","l","s","e">>
      [] v.t = "undef" -> <<"u","n","d","e","f","i","n","e","d">>
      [] v.t = "fn" -> NativeToStringSource

\* typeof v
typeof(v) ==
    CASE v.t = "str" -> <<"s","t","r","i","n","g">>
      [] v.t = "num" -> <<"n","u","m","b","e","r">>
      [] v.t = "bool" -> <<"b","o","o","l","e","a","n">>
      [] v.t = "undef" -> <<"u","n","d","e","f","i","n","e","d">>
      [] v.t = "fn" -> <<"f","u","n","c","t","i","o","n">>

\* The members an object literal inherits from Object.prototype; the model
\* holds the one its templates name.
ObjectPrototype ==
    [k \in {<<"t","o","S","t","r","i","n","g">>} |-> Fn("Object.prototype.toString")]

\* obj[key] on an object literal: an own property, else an inherited one,
\* else undefined
Get(obj, key) ==
    IF key \in DOMAIN obj THEN obj[key]
    ELSE IF key \in DOMAIN ObjectPrototype THEN ObjectPrototype[key]
    ELSE Undefined

\* args[k], undefined past the end
Arg(args, k) == IF k <= Len(args) THEN args[k] ELSE Undefined

\* String.prototype.replace(search, replace) with string arguments: the
\* first occurrence
replaceFirst(s, search, replace) ==
    IF includesStr(s, search)
    THEN LET k == CHOOSE k \in 1..(Len(s) + 1) :
                      /\ k + Len(search) - 1 <= Len(s)
                      /\ SubSeq(s, k, k + Len(search) - 1) = search
                      /\ \A j \in 1..(k - 1) :
                            SubSeq(s, j, j + Len(search) - 1) # search
         IN SubSeq(s, 1, k - 1) \o replace \o SubSeq(s, k + Len(search), Len(s))
    ELSE s

\* r.charAt(0).toUpperCase() + r.slice(1).toLowerCase()
capitalizeStr(r) ==
    IF r = <<>> THEN <<>>
    ELSE <<toUpperCaseChar(r[1])>> \o toLowerCase(SubSeq(r, 2, Len(r)))

\* filterFn(value, ...args) for the functions of the model: the four
\* built-ins, the functions callers register, and Object.prototype.toString
\* called as a plain function (this is undefined)
callFilter(fn, value, args) ==
    CASE fn = "lower" -> Str(toLowerCase(String(value)))
      [] fn = "upper" -> Str(toUpperCase(String(value)))
      [] fn = "capitalize" -> Str(capitalizeStr(String(value)))
      [] fn = "includes" -> Bool(includesStr(String(value), String(Arg(args, 1))))
      [] fn = "replace" ->
            Str(replaceFirst(String(value), String(Arg(args, 1)), String(Arg(args, 2))))
      [] fn = "length" -> Num(Len(String(value)))
      [] fn = "typeof" -> Str(typeof(value))
      [] fn = "Object.prototype.toString" ->
            Str(<<"[","o","b","j","e","c","t"," ","U","n","d","e","f","i","n","e","d","]">>)

(***************************************************************************)
(* Evaluator.  An evaluation returns Val(value, calls) or Thrown(message,  *)
(* calls); calls records every entry of applyFilter, in order: the name    *)
(* looked up, whether a function was found, and the value and arguments    *)
(* the function was called with.                                           *)
(***************************************************************************)
Val(value, calls) == [ok |-> TRUE, value |-> value, calls |-> calls]

Thrown(message, calls) == [ok |-> FALSE, error |-> message, calls |-> calls]

Call(name, found, fn, value, args) ==
    [name |-> name, found |-> found, fn |-> fn, value |-> value, args |-> args]

RECURSIVE evaluateExpression(_, _, _, _)

\* case 'VARIABLE': context[expr.name] || ''
evaluateVariable(expr, context, calls) ==
    LET v == Get(context, expr.name)
    IN Val(IF truthy(v) THEN v ELSE Str(<<>>), calls)

RECURSIVE evaluateArgs(_, _, _, _, _)
\* filter.args.map((arg) => this.evaluateExpression(arg, context))
evaluateArgs(args, context, flt, calls, done) ==
    IF args = <<>> THEN Val(done, calls)
    ELSE LET a == evaluateExpression(Head(args), context, flt, calls)
         IN IF ~a.ok THEN a
            ELSE evaluateArgs(Tail(args), context, flt, a.calls, Append(done, a.value))

\* applyFilter handing the filter String(value) instead of value
applyFilterStringified(filter, value, context, flt, calls) ==
    LET filterFn == Get(flt, filter.name)
    IN IF ~truthy(filterFn)
       THEN Thrown(<<"Unknown filter: ">> \o filter.name,
                   Append(calls, Call(filter.name, FALSE, "", value, <<>>)))
       ELSE LET args == evaluateArgs(filter.args, context, flt, calls, <<>>)
            IN IF ~args.ok THEN args
               ELSE Val(callFilter(filterFn.name, Str(String(value)), args.value),
                        Append(args.calls,
                               Call(filter.name, TRUE, filterFn.name, value, args.value)))

applyFilter(filter, value, context, flt, calls) ==
    LET filterFn == Get(flt, filter.name)
    IN IF ~truthy(filterFn)
       THEN Thrown(<<"Unknown filter: ">> \o filter.name,
                   Append(calls, Call(filter.name, FALSE, "", value, <<>>)))
       ELSE LET args == evaluateArgs(filter.args, context, flt, calls, <<>>)
            IN IF ~args.ok THEN args
               ELSE Val(callFilter(filterFn.name, value, args.value),
                        Append(args.calls,
                               Call(filter.name, TRUE, filterFn.name, value, args.value)))

\* case 'PIPE'
evaluatePipe(expr, context, flt, calls) ==
    LET value == evaluateExpression(expr.left, context, flt, calls)
    IN IF ~value.ok THEN value
       ELSE applyFilter(expr.filter, value.value, context, flt, value.calls)

\* the ternary evaluating both branches before it chooses
evaluateTernaryEager(expr, context, flt, calls) ==
    LET condition == evaluateExpression(expr.condition, context, flt, calls)
    IN IF ~condition.ok THEN condition
       ELSE LET t == evaluateExpression(expr.trueExpr, context, flt, condition.calls)
            IN IF ~t.ok THEN t
               ELSE LET f == evaluateExpression(expr.falseExpr, context, flt, t.calls)
                    IN IF ~f.ok THEN f
                       ELSE IF truthy(condition.value) THEN Val(t.value, f.calls)
                       ELSE f

\* case 'TERNARY'
evaluateTernary(expr, context, flt, calls) ==
    LET condition == evaluateExpression(expr.condition, context, flt, calls)
    IN IF ~condition.ok THEN condition
       ELSE IF truthy(condition.value)
       THEN evaluateExpression(expr.trueExpr, context, flt, condition.calls)
       ELSE evaluateExpression(expr.falseExpr, context, flt, condition.calls)

\* the fallback written `left ?? right`: only a missing left falls back
evaluateOrNullish(expr, context, flt, calls) ==
    LET left == evaluateExpression(expr.left, context, flt, calls)
    IN IF ~left.ok THEN left
       ELSE IF left.value # Undefined THEN left
       ELSE evaluateExpression(expr.right, context, flt, left.calls)

\* case 'OR': left || this.evaluateExpression(expr.right, context)
evaluateOr(expr, context, flt, calls) ==
    LET left == evaluateExpression(expr.left, context, flt, calls)
    IN IF ~left.ok THEN left
       ELSE IF truthy(left.value) THEN left
       ELSE evaluateExpression(expr.right, context, flt, left.calls)

evaluateExpression(expr, context, flt, calls) ==
    CASE expr.type = "VARIABLE" -> evaluateVariable(expr, context, calls)
      [] expr.type = "STRING" -> Val(Str(expr.value), calls)
      [] expr.type = "PIPE" -> evaluatePipe(expr, context, flt, calls)
      [] expr.type = "TERNARY" -> evaluateTernary(expr, context, flt, calls)
      [] expr.type = "OR" -> evaluateOr(expr, context, flt, calls)
      [] OTHER -> Val(Str(<<>>), calls)

\* returns the node's text as Val(string, calls)
evaluateNode(node, context, flt, calls) ==
    CASE node.type = "TEXT" -> Val(node.value, calls)
      [] node.type = "TEMPLATE" ->
            LET v == evaluateExpression(node.expression, context, flt, calls)
            IN IF ~v.ok THEN v ELSE Val(String(v.value), v.calls)
      [] OTHER -> Val(<<>>, calls)

RECURSIVE evaluateNodes(_, _, _, _, _)
\* ast.map((node) => this.evaluateNode(node, context)), in order
evaluateNodes(ast, context, flt, calls, done) ==
    IF ast = <<>> THEN Val(done, calls)
    ELSE LET n == evaluateNode(Head(ast), context, flt, calls)
         IN IF ~n.ok THEN n
            ELSE evaluateNodes(Tail(ast), context, flt, n.calls, Append(done, n.value))

\* evaluate(ast, context): Val(the joined string, calls) or Thrown
evaluate(ast, context, flt) ==
    LET parts == evaluateNodes(ast, context, flt, <<>>, <<>>)
    IN IF ~parts.ok THEN parts ELSE Val(Concat(parts.value), parts.calls)

(***************************************************************************)
(* TemplateEngine: the filter registry, the compile cache and the calls.   *)
(* last records the most recent call on the engine and what it returned    *)
(* or threw; parsed tells whether the call constructed a TemplateParser.   *)
(***************************************************************************)
lower == <<"l","o","w","e","r">>
upper == <<"u","p","p","e","r">>
capitalize == <<"c","a","p","i","t","a","l","i","z","e">>
includes == <<"i","n","c","l","u","d","e","s">>

\* the filters field initializer
BuiltinFilters ==
    [k \in {lower, upper, capitalize, includes} |->
        CASE k = lower -> Fn("lower")
          [] k = upper -> Fn("upper")
          [] k = capitalize -> Fn("capitalize")
          [] k = includes -> Fn("includes")]

EmptyContext == [k \in {} |-> Undefined]

\* Object.keys(this.filters), as a set
getFilters(flt) == DOMAIN flt

\* this.astCache.set(template, ast)
cacheSet(cache, template, ast) ==
    [k \in DOMAIN cache \cup {template} |-> IF k = template THEN ast ELSE cache[k]]

\* compile catching the parser's Error and keeping an empty AST for the source
compileParsedLenient(cache, template, p) ==
    IF p.ok
    THEN [ok |-> TRUE, ast |-> p.node,
          cache |-> cacheSet(cache, template, p.node), parsed |-> TRUE]
    ELSE [ok |-> TRUE, ast |-> <<>>,
          cache |-> cacheSet(cache, template, <<>>), parsed |-> TRUE]

\* compile(template) past the cache: p is what parser.parse() returned or
\* threw; only a returned AST is stored
compileParsed(cache, template, p) ==
    IF p.ok
    THEN [ok |-> TRUE, ast |-> p.node,
          cache |-> cacheSet(cache, template, p.node), parsed |-> TRUE]
    ELSE [ok |-> FALSE, error |-> p.error, cache |-> cache, parsed |-> TRUE]

\* compile without the cache lookup
compileAlwaysParse(cache, template) == compileParsed(cache, template, parse(template))

\* compile(template) on a cache: the AST or the thrown Error, and the cache
\* afterwards
compile(cache, template) ==
    IF template \in DOMAIN cache
    THEN [ok |-> TRUE, ast |-> cache[template], cache |-> cache, parsed |-> FALSE]
    ELSE compileParsed(cache, template, parse(template))

\* the return of render: c is what compile returned, e what evaluate
\* returned or threw
renderEvaluated(c, e) ==
    IF e.ok
    THEN [ok |-> TRUE, output |-> e.value, calls |-> e.calls,
          ast |-> c.ast, cache |-> c.cache, parsed |-> c.parsed]
    ELSE [ok |-> FALSE, error |-> e.error, calls |-> e.calls,
          ast |-> c.ast, cache |-> c.cache, parsed |-> c.parsed]

\* render past its compile: an Error compile threw propagates
renderCompiled(flt, context, c) ==
    IF ~c.ok
    THEN [ok |-> FALSE, error |-> c.error, calls |-> <<>>, ast |-> <<>>,
          cache |-> c.cache, parsed |-> c.parsed]
    ELSE renderEvaluated(c, evaluate(c.ast, context, flt))

\* render(template, context): compile, then evaluate
render(cache, flt, template, context) ==
    renderCompiled(flt, context, compile(cache, template))

\* addFilter that keeps an existing entry
addFilterKeep(flt, name, fn) ==
    [k \in DOMAIN flt \cup {name} |-> IF k \in DOMAIN flt THEN flt[k] ELSE Fn(fn)]

\* this.filters[name] = fn
addFilter(flt, name, fn) ==
    [k \in DOMAIN flt \cup {name} |-> IF k = name THEN Fn(fn) ELSE flt[k]]

Init ==
    /\ filters = BuiltinFilters
    /\ astCache = EmptyContext
    /\ last = [op |-> "new"]
    /\ thrown = {}
    /\ scan = NoScan

\* the engine after compile(template) returned or threw c
CompileDone(template, c) ==
    /\ astCache' = c.cache
    /\ last' = [op |-> "compile", template |-> template, ok |-> c.ok,
                ast |-> IF c.ok THEN c.ast ELSE <<>>,
                error |-> IF c.ok THEN <<>> ELSE c.error,
                parsed |-> c.parsed]
    /\ UNCHANGED <<filters, thrown>>

Compile(template) ==
    /\ CompileDone(template, compile(astCache, template))
    /\ UNCHANGED scan

\* the engine after render(template, context) returned or threw r
RenderDone(template, context, r) ==
    /\ astCache' = r.cache
    /\ last' = [op |-> "render", template |-> template, context |-> context,
                ok |-> r.ok,
                output |-> IF r.ok THEN r.output ELSE <<>>,
                error |-> IF r.ok THEN <<>> ELSE r.error,
                calls |-> r.calls, ast |-> r.ast, parsed |-> r.parsed]
    /\ thrown' = thrown \cup {r.calls[k].name : k \in {j \in DOMAIN r.calls : ~r.calls[j].found}}
    /\ UNCHANGED filters

Render(template, context) ==
    /\ RenderDone(template, context, render(astCache, filters, template, context))
    /\ UNCHANGED scan

AddFilter(name, fn) ==
    /\ filters' = addFilter(filters, name, fn)
    /\ last' = [op |-> "addFilter", name |-> name, fn |-> fn]
    /\ UNCHANGED <<astCache, thrown, scan>>

\* compile(template) misses the cache and constructs a TemplateParser, whose
\* constructor starts tokenize()
StartScan(template) ==
    /\ scan.pc = "idle"
    /\ template \notin DOMAIN astCache
    /\ scan' = scanStart(template)
    /\ UNCHANGED <<filters, astCache, last, thrown>>

\* one iteration of the scan loop of the compile in progress, on branch b
ScanStep(b, next) ==
    /\ scan.pc = "loop"
    /\ loopBranch(scan) = b
    /\ scan' = next
    /\ UNCHANGED <<filters, astCache, last, thrown>>

ScanOpen == ScanStep("open", openTemplate(scan))
ScanClose == ScanStep("close", closeTemplate(scan))
ScanSpace == ScanStep("space", skipSpace(scan))
ScanPipe == ScanStep("pipe", pushOperator(scan, "PIPE"))
ScanQuestion == ScanStep("question", pushOperator(scan, "QUESTION"))
ScanColon == ScanStep("colon", pushOperator(scan, "COLON"))
ScanString == ScanStep("string", stringLiteral(scan))
ScanIdentifier == ScanStep("identifier", identifierOrKeyword(scan))
ScanUnknown == ScanStep("unknown", skipUnknown(scan))
ScanText == ScanStep("text", textRun(scan))

\* the loop ends: tokenize returns its tokens to the constructor
ScanReturn ==
    /\ scan.pc = "loop"
    /\ loopBranch(scan) = "return"
    /\ scan' = [scan EXCEPT !.pc = "returned"]
    /\ UNCHANGED <<filters, astCache, last, thrown>>

\* parse() runs over the returned tokens and compile returns or throws
ParseScanned ==
    /\ scan.pc = "returned"
    /\ scan' = [scan EXCEPT !.pc = "parsed"]
    /\ CompileDone(scan.input,
                   compileParsed(astCache, scan.input, parseLoop(scan.tokens, 1, <<>>)))

(***************************************************************************)
(* Inputs: template sources and contexts, built from the placeholder       *)
(* syntax.                                                                 *)
(***************************************************************************)
SeqsUpTo(S, n) == UNION {[1..k -> S] : k \in 0..n}

Sp == <<" ">>

\* {{ e }}
Tpl(e) == OPEN \o Sp \o e \o Sp \o CLOSE

\* 's'
Lit(s) == <<"'">> \o s \o <<"'">>

RECURSIVE JoinWith(_, _)
\* the strings of parts joined by sep
JoinWith(parts, sep) ==
    IF Len(parts) = 0 THEN <<>>
    ELSE IF Len(parts) = 1 THEN parts[1]
    ELSE parts[1] \o sep \o JoinWith(Tail(parts), sep)

OrSep == <<" ","o","r"," ">>
PipeSep == <<" ","|"," ">>

\* cond ? t : e
TernarySrc(cond, t, e) == cond \o <<" ","?"," ">> \o t \o <<" ",":"," ">> \o e

na == <<"a">>
nb == <<"b">>
nc == <<"c">>
Jo == <<"J","o">>

\* never registered by any call of the model
nope == <<"n","o","p","e">>
\* registered by callers
shout == <<"s","h","o","u","t">>
length == <<"l","e","n","g","t","h">>
typeofName == <<"t","y","p","e","o","f">>
replace == <<"r","e","p","l","a","c","e">>
\* a member of Object.prototype
toStringName == <<"t","o","S","t","r","i","n","g">>

\* the values a context binds
CtxValues ==
    {Str(<<>>), Str(Jo), Bool(FALSE), Bool(TRUE)} \cup {Num(n) : n \in 0..MaxNum}

\* every context binding some of names to values of V
ContextsOver(names, V) == UNION {[D -> V] : D \in SUBSET names}

\* Literal text, with and without markers.
TextAlphabet == {"a", " ", "{", "}"}
Texts == SeqsUpTo(TextAlphabet, MaxTextLen)
TextContexts == {EmptyContext, [k \in {na} |-> Str(Jo)]}
TextInputs == Texts \X TextContexts

\* One variable, alone, in text, as a condition and as an `or` operand.
VarNames == {na, nb, toStringName}
VarTemplates ==
    UNION {{Tpl(n),
            <<"H","i"," ">> \o Tpl(n) \o <<"!">>,
            Tpl(TernarySrc(n, Lit(<<"T">>), Lit(<<"F">>))),
            Tpl(n \o OrSep \o Lit(<<"D">>))} : n \in VarNames}
VarInputs == VarTemplates \X ContextsOver({na}, CtxValues)

\* `or` chains.
OrOperands ==
    {na, nb, Lit(<<"D">>), Lit(<<>>), na \o PipeSep \o length, nc \o PipeSep \o nope}
OrChains == {JoinWith(ops, OrSep) : ops \in SeqsUpTo(OrOperands, MaxOrLen) \ {<<>>}}
OrInputs ==
    {Tpl(e) : e \in OrChains} \X ContextsOver({na, nb}, {Str(Jo), Num(0)})

\* Ternaries.
TernaryConds ==
    {na, Lit(<<>>), Lit(<<"x">>), na \o PipeSep \o length,
     na \o PipeSep \o includes \o Sp \o Lit(<<"o">>), na \o PipeSep \o nope}
TernaryBranches == {Lit(<<"Y">>), nb, nb \o PipeSep \o nope}
TernaryTemplates ==
    {Tpl(TernarySrc(c, t, e)) : c \in TernaryConds, t \in TernaryBranches,
                                e \in TernaryBranches}
TernaryInputs ==
    TernaryTemplates \X
        (ContextsOver({na}, CtxValues) \cup {[k \in {na, nb} |-> Str(Jo)]})

\* Filter pipelines.
PipeFilters ==
    {lower, upper, capitalize, includes \o Sp \o Lit(<<"o">>), typeofName, length,
     replace \o Sp \o Lit(<<"o">>) \o Sp \o nb,
     replace \o Sp \o nb \o Sp \o Lit(<<"o">>)}
Pipelines ==
    {JoinWith(<<h>> \o fs, PipeSep) :
        h \in {na, Lit(Jo)}, fs \in SeqsUpTo(PipeFilters, MaxPipeLen) \ {<<>>}}
PipeInputs ==
    {Tpl(e) : e \in Pipelines} \X
        {c \in ContextsOver({na, nb}, {Str(Jo), Str(<<"J">>), Num(0), Bool(TRUE)}) :
            nb \in DOMAIN c => c[nb] = Str(<<"J">>)}

\* Filters that are not registered, among text and other placeholders.
UnknownTemplates ==
    UNION {{Tpl(na \o PipeSep \o f),
            <<"H","i"," ">> \o Tpl(na \o PipeSep \o f) \o <<"!">>,
            Tpl(na) \o Tpl(na \o PipeSep \o f) \o Tpl(nb),
            Tpl(na \o PipeSep \o upper \o PipeSep \o f \o PipeSep \o lower)}
           : f \in {nope, shout, toStringName}}
UnknownInputs == UnknownTemplates \X ContextsOver({na}, {Str(Jo), Num(1)})

RenderInputs ==
    VarInputs \cup OrInputs \cup TernaryInputs \cup PipeInputs \cup UnknownInputs

\* the filters callers register before rendering, in order
CustomFilters ==
    <<<<length, "length">>, <<typeofName, "typeof">>, <<replace, "replace">>>>

\* Templates of the engine's lifecycle.
EngineTemplates ==
    {Tpl(na), OPEN \o na \o CLOSE, Tpl(na \o PipeSep \o upper),
     Tpl(na \o PipeSep \o shout),
     OPEN \o Sp \o na,
     <<"x">> \o Tpl(na) \o OPEN \o na,
     Tpl(na \o <<" ","?"," ">> \o Lit(<<"Y">>)),
     Tpl(na \o <<" ","?"," ">> \o Lit(<<"Y">>) \o Sp \o Lit(<<"N">>)),
     Tpl(na \o Sp \o Lit(<<"b">>)),
     Tpl(<<"1">>),
     Tpl(na \o <<" ","o","r">>),
     Tpl(na \o <<" ","?"," ",":"," ">> \o nb),
     Tpl(TernarySrc(na, nb, <<"|">>)),
     OPEN \o na \o PipeSep \o upper \o Sp \o Tpl(nb)}
EngineContexts == {EmptyContext, [k \in {na} |-> Str(Jo)]}
EngineFilters == {<<shout, "upper">>, <<shout, "capitalize">>, <<upper, "lower">>}

\* Expression trees in the shape the grammar gives them, and their sources.
VariableNode(name) == [type |-> "VARIABLE", name |-> name]
StringNode(value) == [type |-> "STRING", value |-> value]
FilterNode(name, args) == [type |-> "FILTER", name |-> name, args |-> args]
PipeNode(left, filter) == [type |-> "PIPE", left |-> left, filter |-> filter]
OrNode(left, right) == [type |-> "OR", left |-> left, right |-> right]
TernaryNode(condition, trueExpr, falseExpr) ==
    [type |-> "TERNARY", condition |-> condition,
     trueExpr |-> trueExpr, falseExpr |-> falseExpr]
TemplateNode(expression) == [type |-> "TEMPLATE", expression |-> expression]

nf == <<"f">>
ng == <<"g">>

RECURSIVE srcOf(_)
\* an expression written out flat, operator by operator, as the placeholder
\* syntax writes it (the syntax has no parentheses), with no more spaces
\* than the lexer needs
srcOf(e) ==
    CASE e.type = "VARIABLE" -> e.name
      [] e.type = "STRING" -> Lit(e.value)
      [] e.type = "FILTER" ->
            JoinWith(<<e.name>> \o [k \in DOMAIN e.args |-> srcOf(e.args[k])], Sp)
      [] e.type = "PIPE" -> srcOf(e.left) \o <<"|">> \o srcOf(e.filter)
      [] e.type = "OR" -> srcOf(e.left) \o OrSep \o srcOf(e.right)
      [] e.type = "TERNARY" ->
            srcOf(e.condition) \o <<"?">> \o srcOf(e.trueExpr)
                \o <<":">> \o srcOf(e.falseExpr)

RECURSIVE foldPipe(_, _)
\* head | f1 | f2 ... nested to the left
foldPipe(head, fs) ==
    IF fs = <<>> THEN head ELSE foldPipe(PipeNode(head, Head(fs)), Tail(fs))

RECURSIVE foldOr(_, _)
\* left or o1 or o2 ... nested to the left
foldOr(left, ops) ==
    IF ops = <<>> THEN left ELSE foldOr(OrNode(left, Head(ops)), Tail(ops))

PrecFilters == {FilterNode(nf, <<>>), FilterNode(ng, <<StringNode(<<"o">>)>>)}
PrecPipes ==
    {foldPipe(VariableNode(na), fs) : fs \in SeqsUpTo(PrecFilters, MaxPipeLen)}
aPipeF == foldPipe(VariableNode(na), <<FilterNode(nf, <<>>)>>)
PrecOperands == {VariableNode(nb), StringNode(<<"x">>), aPipeF}
PrecOrs ==
    {foldOr(Head(ops), Tail(ops)) : ops \in SeqsUpTo(PrecOperands, MaxOrLen) \ {<<>>}}
aPipeFOrB == foldOr(aPipeF, <<VariableNode(nb)>>)
PrecConds ==
    {VariableNode(na), aPipeFOrB,
     foldOr(VariableNode(nb), <<aPipeF, StringNode(<<"x">>)>>),
     foldPipe(VariableNode(na), <<FilterNode(ng, <<StringNode(<<"o">>)>>),
                                  FilterNode(nf, <<>>)>>)}
PrecLeaves == {VariableNode(nb), StringNode(<<"Y">>), aPipeFOrB}
PrecBranches ==
    PrecLeaves \cup {TernaryNode(VariableNode(nc), t, e) : t \in PrecLeaves, e \in PrecLeaves}
PrecTernaries ==
    {TernaryNode(c, t, e) : c \in PrecConds, t \in PrecBranches, e \in PrecBranches}
PrecExprs ==
    {e \in PrecPipes \cup PrecOrs \cup PrecTernaries : Len(srcOf(e)) <= MaxSrcLen}
PrecPairs == {<<OPEN \o srcOf(e) \o CLOSE, e>> : e \in PrecExprs}
PrecSources == {p[1] : p \in PrecPairs}

\* Sources with markers that do and do not match.
MarkerSources ==
    Texts \cup {Tpl(na), OPEN \o na \o CLOSE \o CLOSE, OPEN \o na \o Tpl(nb),
                Tpl(na) \o <<"x">> \o CLOSE, Tpl(na) \o OPEN \o nb}

CompileInputs == PrecSources \cup MarkerSources

\* Sources for the lexer: every short string over LexAlphabet, outside and
\* inside a placeholder, and runs of placeholders written back to back.
LexAlphabet == {"{", "}", "a", " ", "'", "\\", "1"}
LexShort ==
    {pre \o body : pre \in {<<>>, OPEN}, body \in SeqsUpTo(LexAlphabet, MaxLexLen)}
Placeholders ==
    {OPEN \o na \o CLOSE, Tpl(nb), OPEN \o na \o <<"|">> \o nf \o CLOSE,
     OPEN \o Lit(<<"x">>) \o CLOSE, OPEN \o na \o OrSep \o nb \o CLOSE,
     OPEN \o na \o <<"?">> \o nb \o <<":">> \o Lit(CLOSE) \o CLOSE}
RunPairs == {<<Concat(ps), Len(ps)>> : ps \in SeqsUpTo(Placeholders, MaxRun)}
Runs == {p[1] : p \in RunPairs}
LexInputs == LexShort \cup Runs

(***************************************************************************)
(* Specifications.                                                         *)
(***************************************************************************)
\* One engine, any calls in any order.
Next ==
    \/ \E t \in EngineTemplates : Compile(t)
    \/ \E t \in EngineTemplates, c \in EngineContexts : Render(t, c)
    \/ \E f \in EngineFilters : AddFilter(f[1], f[2])

Spec == Init /\ [][Next]_vars

\* the number of CustomFilters registered so far
Registered == Cardinality({k \in DOMAIN CustomFilters : CustomFilters[k][1] \in DOMAIN filters})

RegisterCustom ==
    /\ Registered < Len(CustomFilters)
    /\ AddFilter(CustomFilters[Registered + 1][1], CustomFilters[Registered + 1][2])

RenderOnce ==
    /\ Registered = Len(CustomFilters)
    /\ last.op # "render"
    /\ \E i \in RenderInputs : Render(i[1], i[2])

\* A fresh engine: the callers' filters are registered, then one render.
RenderNext == RegisterCustom \/ RenderOnce

RenderSpec == Init /\ [][RenderNext]_vars

TextRender ==
    /\ last.op # "render"
    /\ \E i \in TextInputs : Render(i[1], i[2])

\* A fresh engine and one render of literal text.
TextSpec == Init /\ [][TextRender]_vars

CompileOnce ==
    /\ last.op # "compile"
    /\ \E t \in CompileInputs : Compile(t)

\* A fresh engine and one compile.
CompileSpec == Init /\ [][CompileOnce]_vars

\* the steps of tokenize()
ScanLoop ==
    \/ \E input \in LexInputs : StartScan(input)
    \/ ScanOpen
    \/ ScanClose
    \/ ScanSpace
    \/ ScanPipe
    \/ ScanQuestion
    \/ ScanColon
    \/ ScanString
    \/ ScanIdentifier
    \/ ScanUnknown
    \/ ScanText
    \/ ScanReturn

LexNext ==
    \/ \E input \in LexInputs : StartScan(input)
    \/ ScanOpen
    \/ ScanClose
    \/ ScanSpace
    \/ ScanPipe
    \/ ScanQuestion
    \/ ScanColon
    \/ ScanString
    \/ ScanIdentifier
    \/ ScanUnknown
    \/ ScanText
    \/ ScanReturn
    \/ ParseScanned

\* One compile of a fresh engine, its scan taken one loop iteration at a
\* time; tokenize is sequential code, so a step of it that can run does.
LexSpec == Init /\ [][LexNext]_vars /\ WF_vars(ScanLoop)

(***************************************************************************)
(* Properties.                                                             *)
(***************************************************************************)
\* the last call was a render of one placeholder and nothing else
SinglePlaceholder ==
    /\ last.op = "render"
    /\ Len(last.ast) = 1
    /\ last.ast[1].type = "TEMPLATE"

\* the last render ended as the evaluation r of its expression does, having
\* entered applyFilter exactly as calls tells
SameOutcome(r, calls) ==
    /\ last.ok = r.ok
    /\ r.ok => last.output = String(r.value)
    /\ ~r.ok => last.error = r.error
    /\ last.calls = calls

\* C1: a source with no '{{' in it, a '}}' anywhere included, renders as
\* itself under every context.
C1_Passthrough ==
    (last.op = "render" /\ ~includesStr(last.template, OPEN))
        => (last.ok /\ last.output = last.template)

\* C2: '{{ a }}' with a bound to a string, a number or a boolean (0, false
\* and '' included) renders as the string form of the value.
C2_StringForm ==
    (last.op = "render" /\ last.template = Tpl(na) /\ na \in DOMAIN last.context)
        => (last.ok /\ last.output = String(last.context[na]))

\* C3: a name that is no key of the context renders as the empty string
\* without an error, and is falsy as a ternary condition and as an `or`
\* operand.
C3_MissingIsEmpty ==
    \A n \in VarNames :
        (last.op = "render" /\ n \notin DOMAIN last.context) =>
            /\ last.template = Tpl(n) => (last.ok /\ last.output = <<>>)
            /\ last.template = Tpl(TernarySrc(n, Lit(<<"T">>), Lit(<<"F">>)))
                  => (last.ok /\ last.output = <<"F">>)
            /\ last.template = Tpl(n \o OrSep \o Lit(<<"D">>))
                  => (last.ok /\ last.output = <<"D">>)

\* C4: a render whose evaluation reaches a Pipe naming a filter that is not
\* among getFilters() throws 'Unknown filter: <name>' and returns no string.
C4_UnknownFilterThrows ==
    last.op = "render" =>
        \A k \in DOMAIN last.calls :
            last.calls[k].name \notin getFilters(filters) =>
                /\ ~last.ok
                /\ last.error = <<"Unknown filter: ">> \o last.calls[k].name

\* the values the claim lists as falsy
ListedFalsy(v) == v \in {Str(<<>>), Bool(FALSE), Undefined, Num(0)}

RECURSIVE orOperandsOf(_)
\* the operands e1, ..., en of the chain an Or node folds
orOperandsOf(e) ==
    IF e.type = "OR" THEN Append(orOperandsOf(e.left), e.right) ELSE <<e>>

\* C6: an `or` chain evaluates its operands left to right up to the first
\* truthy one, returns that operand's value, and evaluates nothing to its
\* right; with no truthy operand it returns the value of the last one.
C6_OrFirstTruthy ==
    (SinglePlaceholder /\ last.ast[1].expression.type = "OR") =>
        LET ops == orOperandsOf(last.ast[1].expression)
            vals == [i \in DOMAIN ops |->
                        evaluateExpression(ops[i], last.context, filters, <<>>)]
            stops == {i \in DOMAIN ops : ~vals[i].ok \/ truthy(vals[i].value)}
            k == IF stops = {} THEN Len(ops)
                 ELSE CHOOSE i \in stops : \A j \in stops : i <= j
        IN SameOutcome(vals[k], Concat([i \in 1..k |-> vals[i].calls]))

C6_Witness ==
    /\ SinglePlaceholder
    /\ last.template =
          Tpl(JoinWith(<<na \o PipeSep \o length, nb, nc \o PipeSep \o nope>>, OrSep))
    /\ DOMAIN last.context = {nb}
    /\ last.context[nb] = Str(Jo)
    /\ last.calls = <<Call(length, TRUE, "length", Str(<<>>), <<>>)>>
    /\ last.ok
    /\ last.output = Jo

RECURSIVE pipeHeadOf(_)
\* the expression x a pipeline starts from
pipeHeadOf(e) == IF e.type = "PIPE" THEN pipeHeadOf(e.left) ELSE e

RECURSIVE pipeFiltersOf(_)
\* the filters f1, ..., fn of a pipeline, in written order
pipeFiltersOf(e) ==
    IF e.type = "PIPE" THEN Append(pipeFiltersOf(e.left), e.filter) ELSE <<>>

RECURSIVE chainFrom(_, _, _, _)
\* fn(...f2(f1(value, args1), args2)..., argsn) from filter k on, with the
\* record of each call
chainFrom(value, fs, k, calls) ==
    IF k > Len(fs) THEN [value |-> value, calls |-> calls]
    ELSE LET args == [i \in DOMAIN fs[k].args |->
                         evaluateExpression(fs[k].args[i], last.context, filters, <<>>).value]
             fn == filters[fs[k].name].name
         IN chainFrom(callFilter(fn, value, args), fs, k + 1,
                      Append(calls, Call(fs[k].name, TRUE, fn, value, args)))

\* C7: a pipeline of registered filters applies them left to right, each to
\* the previous result as returned and then its own arguments in written
\* order.
C7_PipelineOrder ==
    (SinglePlaceholder /\ last.ast[1].expression.type = "PIPE") =>
        LET e == last.ast[1].expression
            fs == pipeFiltersOf(e)
            x == evaluateExpression(pipeHeadOf(e), last.context, filters, <<>>)
            r == chainFrom(x.value, fs, 1, <<>>)
        IN (\A k \in DOMAIN fs : fs[k].name \in getFilters(filters)) =>
               /\ last.ok
               /\ last.output = String(r.value)
               /\ last.calls = r.calls

C7_Witness ==
    /\ SinglePlaceholder
    /\ last.template =
          Tpl(JoinWith(<<na, includes \o Sp \o Lit(<<"o">>), typeofName>>, PipeSep))
    /\ last.calls = <<Call(includes, TRUE, "includes", Str(Jo), <<Str(<<"o">>)>>),
                      Call(typeofName, TRUE, "typeof", Bool(TRUE), <<>>)>>
    /\ last.ok
    /\ last.output = <<"b","o","o","l","e","a","n">>

\* the indices of the token stream at which parse() starts a placeholder:
\* an OPEN_TEMPLATE with everything before it parsed
placeholderStarts(toks) ==
    {p \in DOMAIN toks :
        /\ toks[p].type = "OPEN_TEMPLATE"
        /\ parseLoop(SubSeq(toks, 1, p - 1), 1, <<>>).ok}

\* the last compile or render threw message and returned nothing
ThrewParseError(message) ==
    /\ ~last.ok
    /\ last.error = message
    /\ last.ast = <<>>
    /\ last.template \notin DOMAIN astCache

\* the token kinds parsePrimary accepts
PrimaryKinds == {"IDENTIFIER", "STRING"}

\* the primary positions of the placeholder starting at p that the parser
\* reaches by the first operand, an `or`, a filter's arguments, '?' and ':'
primaryPositions(toks, p) ==
    LET first == parsePipeline(toks, p + 1)
        head == parsePrimary(toks, p + 1)
        c == parseOr(toks, p + 1)
        b == parseExpression(toks, c.current + 1)
    IN {p + 1}
       \cup (IF first.ok /\ peekType(toks, first.current) = "OR"
             THEN {first.current + 1} ELSE {})
       \cup (IF /\ head.ok
                /\ peekType(toks, head.current) = "PIPE"
                /\ peekType(toks, head.current + 1) = "IDENTIFIER"
                /\ peekType(toks, head.current + 2) \notin ArgStops
             THEN {head.current + 2} ELSE {})
       \cup (IF c.ok /\ peekType(toks, c.current) = "QUESTION"
             THEN {c.current + 1}
                  \cup (IF b.ok /\ peekType(toks, b.current) = "COLON"
                        THEN {b.current + 1} ELSE {})
             ELSE {})

\* C8: compile is all-or-nothing.  A placeholder whose expression is not
\* followed by CLOSE_TEMPLATE throws 'Expected CLOSE_TEMPLATE', a ternary
\* whose true branch is not followed by COLON throws 'Expected COLON', a
\* primary position holding neither IDENTIFIER nor STRING throws 'Unexpected
\* token: <kind or EOF>'; no AST is returned and the cache never holds a
\* source whose parse throws, so compiling it again throws again.
C8_CompileAllOrNothing ==
    /\ \A t \in DOMAIN astCache : parse(t).ok
    /\ (last.op \in {"compile", "render"} /\ ~parse(last.template).ok) =>
           /\ ~last.ok
           /\ last.ast = <<>>
           /\ last.parsed
    /\ last.op \in {"compile", "render"} =>
        LET toks == tokenize(last.template)
        IN \A p \in placeholderStarts(toks) :
            LET e == parseExpression(toks, p + 1)
                c == parseOr(toks, p + 1)
                b == parseExpression(toks, c.current + 1)
            IN /\ (e.ok /\ peekType(toks, e.current) # "CLOSE_TEMPLATE") =>
                      ThrewParseError(<<"Expected ", "CLOSE_TEMPLATE", " but got ",
                                        peekType(toks, e.current)>>)
               /\ (/\ c.ok
                   /\ peekType(toks, c.current) = "QUESTION"
                   /\ b.ok
                   /\ peekType(toks, b.current) # "COLON") =>
                      ThrewParseError(<<"Expected ", "COLON", " but got ",
                                        peekType(toks, b.current)>>)
               /\ \A q \in primaryPositions(toks, p) :
                      peekType(toks, q) \notin PrimaryKinds =>
                          ThrewParseError(<<"Unexpected token: ", peekType(toks, q)>>)

C8_Witness ==
    /\ last.op = "compile"
    /\ last.template = <<"x">> \o Tpl(na) \o OPEN \o na
    /\ ~last.ok
    /\ last.error = <<"Expected ", "CLOSE_TEMPLATE", " but got ", "EOF">>
    /\ last.ast = <<>>
    /\ Tpl(na) \in DOMAIN astCache
    /\ last.template \notin DOMAIN astCache

\* one step of the engine, as C9 tells it
C9_Step ==
    /\ \A t \in DOMAIN astCache : t \in DOMAIN astCache' /\ astCache'[t] = astCache[t]
    /\ last'.op \in {"compile", "render"} =>
        IF last'.template \in DOMAIN astCache
        THEN /\ ~last'.parsed
             /\ last'.ast = astCache[last'.template]
             /\ last'.op = "compile" => last'.ok
             /\ astCache' = astCache
        ELSE /\ last'.parsed
             /\ (last'.op = "compile" /\ last'.ok) =>
                    /\ DOMAIN astCache' = DOMAIN astCache \cup {last'.template}
                    /\ astCache'[last'.template] = last'.ast

\* C9: whatever calls came before, compiling a source that has compiled
\* returns the AST of its first compile without constructing a parser; the
\* key is the exact source text, so a source not compiled before is parsed
\* and stored under its own key even when an equal AST is cached.
C9_CacheHit == [][C9_Step]_vars

C9_Witness ==
    /\ last.op = "compile"
    /\ last.template = Tpl(na)
    /\ last.ok
    /\ ~last.parsed
    /\ (OPEN \o na \o CLOSE) \in DOMAIN astCache
    /\ astCache[OPEN \o na \o CLOSE] = astCache[Tpl(na)]
    /\ shout \in DOMAIN filters

\* one step of the engine, as C10 tells it
C10_Step ==
    /\ last'.op = "addFilter" =>
        /\ filters'[last'.name] = Fn(last'.fn)
        /\ \A n \in DOMAIN filters \ {last'.name} : filters'[n] = filters[n]
        /\ astCache' = astCache
    /\ last'.op \in {"compile", "render"} => filters' = filters
    /\ last'.op = "render" =>
        /\ \A k \in DOMAIN last'.calls :
              last'.calls[k].name \in DOMAIN filters =>
                  /\ last'.calls[k].found
                  /\ last'.calls[k].fn = filters[last'.calls[k].name].name
        /\ (/\ last'.template = Tpl(na \o PipeSep \o shout)
            /\ shout \in DOMAIN filters) =>
              /\ last'.ok
              /\ last'.output =
                    String(callFilter(filters[shout].name,
                                      evaluateVariable([name |-> na], last'.context, <<>>).value,
                                      <<>>))

\* C10: addFilter(name, fn) makes every later render resolve name to fn:
\* the latest registration replaces an earlier one and a built-in, renders
\* of templates cached before it use it, and a render that threw 'Unknown
\* filter: name' succeeds once name is registered.
C10_AddFilterWins == [][C10_Step]_vars

C10_Witness ==
    /\ shout \in thrown
    /\ filters[upper] = Fn("lower")
    /\ shout \in DOMAIN filters
    /\ filters[shout] = Fn("upper")
    /\ last.op = "render"
    /\ last.template = Tpl(na \o PipeSep \o shout)
    /\ ~last.parsed
    /\ last.ok
    /\ last.output = <<"J", "O">>

\* C11: `|` binds tighter than `or` and `or` tighter than `? :`; chains of
\* `or` and of `|` nest to the left; both branches of a ternary are full
\* expressions.  A tree of that shape, written out flat, compiles to one
\* Template node holding exactly that tree.
C11_Precedence ==
    (last.op = "compile" /\ last.template \in PrecSources) =>
        \A p \in PrecPairs :
            last.template = p[1] =>
                (last.ok /\ last.ast = <<TemplateNode(p[2])>>)

\* 'a|f or b?b:c?'Y':a|f or b' compiled
C11_Witness ==
    /\ last.op = "compile"
    /\ last.template =
          OPEN \o srcOf(aPipeFOrB) \o <<"?">> \o nb \o <<":">> \o nc \o <<"?">>
               \o Lit(<<"Y">>) \o <<":">> \o srcOf(aPipeFOrB) \o CLOSE
    /\ last.ok
    /\ last.ast[1].expression.type = "TERNARY"
    /\ last.ast[1].expression.condition = OrNode(aPipeF, VariableNode(nb))
    /\ last.ast[1].expression.falseExpr =
          TernaryNode(VariableNode(nc), StringNode(<<"Y">>), aPipeFOrB)

\* the step-by-step scan returns what tokenize returns
ScanAgrees ==
    scan.pc = "parsed" =>
        /\ scan.tokens = tokenize(scan.input)
        /\ last.op = "compile"
        /\ last.ok = parse(scan.input).ok

ExpressionTypes == {"VARIABLE", "STRING", "PIPE", "TERNARY", "OR"}

\* C12: the lexer never emits a TEXT token with an empty value, and n
\* well-formed placeholders written back to back compile to exactly n
\* Template nodes, each carrying an expression, and no Text node.
C12_NoEmptyText ==
    /\ \A k \in DOMAIN scan.tokens :
          scan.tokens[k].type = "TEXT" => scan.tokens[k].value # <<>>
    /\ (scan.pc = "parsed" /\ scan.input \in Runs) =>
          \A p \in RunPairs :
              scan.input = p[1] =>
                  /\ last.op = "compile"
                  /\ last.ok
                  /\ Len(last.ast) = p[2]
                  /\ \A k \in DOMAIN last.ast :
                        /\ last.ast[k].type = "TEMPLATE"
                        /\ "expression" \in DOMAIN last.ast[k]
                        /\ last.ast[k].expression.type \in ExpressionTypes

\* '{{a}}{{ b }}{{a?b:'}}'}}' scanned and compiled
C12_Witness ==
    /\ scan.pc = "parsed"
    /\ scan.input = Concat(<<OPEN \o na \o CLOSE, Tpl(nb),
                             OPEN \o na \o <<"?">> \o nb \o <<":">> \o Lit(CLOSE) \o CLOSE>>)
    /\ \A k \in DOMAIN scan.tokens : scan.tokens[k].type # "TEXT"
    /\ last.ok
    /\ Len(last.ast) = 3
    /\ last.ast[3].expression.falseExpr = StringNode(CLOSE)

\* one step of the scan, as C14 tells it: an iteration moves the index
\* forward and keeps the tokens pushed so far; the return hands the tokens
\* over as they are
C14_Step ==
    scan.pc = "loop" =>
    /\ scan'.input = scan.input
    /\ scan'.pc \in {"loop", "returned"}
    /\ scan'.pc = "loop" =>
          /\ scan'.i > scan.i
          /\ scan'.i <= Len(scan.input) + 2
          /\ Len(scan'.tokens) <= Len(scan.tokens) + 1
          /\ SubSeq(scan'.tokens, 1, Len(scan.tokens)) = scan.tokens
    /\ scan'.pc = "returned" =>
          /\ scan.i > Len(scan.input)
          /\ scan'.tokens = scan.tokens

\* C14: tokenize is total.  On every input the scan index strictly
\* increases on every iteration, in both modes, and the scan returns its
\* tokens: an unterminated string literal, a trailing backslash inside a
\* string and characters that belong to no token included.
C14_TokenizeTotal == [][C14_Step]_vars /\ <>(scan.pc = "returned")

\* '{{1'\' scanned to the end: the digit skipped, the string absorbed
C14_Witness ==
    /\ scan.pc = "returned"
    /\ scan.input = OPEN \o <<"1", "'", "\\">>
    /\ scan.i = Len(scan.input) + 2
    /\ scan.tokens = <<Token("OPEN_TEMPLATE", OPEN), Token("STRING", <<>>)>>

RECURSIVE unmatchedFrom(_, _, _)
\* reading the markers of source from index i, open telling whether a '{{'
\* is waiting for its '}}': "open" when a '{{' is never closed, "close"
\* when a '}}' comes with no '{{' waiting, "none" when every marker matches
\* (for sources that put no marker inside a string literal)
unmatchedFrom(source, i, open) ==
    IF i > Len(source) THEN (IF open THEN "open" ELSE "none")
    ELSE IF slice2(source, i) = OPEN
    THEN (IF open THEN "open" ELSE unmatchedFrom(source, i + 2, TRUE))
    ELSE IF slice2(source, i) = CLOSE
    THEN (IF open THEN unmatchedFrom(source, i + 2, FALSE) ELSE "close")
    ELSE unmatchedFrom(source, i + 1, open)

unmatched(source) == unmatchedFrom(source, 1, FALSE)

\* C13: every unmatched marker is a parse error.  compile raises for a
\* source in which a '{{' has no matching '}}' and for a source in which a
\* '}}' comes without a preceding unclosed '{{'; neither yields an AST.
C13_UnmatchedRaises ==
    (last.op = "compile" /\ unmatched(last.template) # "none") =>
        (~last.ok /\ last.template \notin DOMAIN astCache)

\* what the code does hold to: an unclosed '{{' is a parse error
C13_UnclosedRaises ==
    (last.op = "compile" /\ unmatched(last.template) = "open") =>
        (~last.ok /\ last.template \notin DOMAIN astCache)

====
